---- MODULE Spec2Model ----
(***************************************************************************)
(* Maintenance scripts of the custom-format dataset (scripts/*.py).        *)
(*                                                                         *)
(* Every script is a one-shot batch job over a directory of YAML files.    *)
(* A directory is a function from file name to file content; a YAML        *)
(* mapping is a record holding exactly the keys that are present, so that  *)
(* Python's  d.get(k, default)  and  k in d  are  Get(d, k, default)  and  *)
(* k \in DOMAIN d.  File names and custom-format names whose letter case   *)
(* or characters matter are sequences of one-character strings.            *)
(***************************************************************************)
EXTENDS Integers, Sequences, FiniteSets, TLC

VARIABLES
    custom_formats,     \* custom_formats/*.yml : file name -> content
    cf_is_dir,          \* whether custom_formats/ exists
    regex_patterns,     \* regex_patterns/*.yml : file name -> content
    rp_exists,          \* whether regex_patterns/ exists
    profiles,           \* profiles/*.yml : file name -> content
    prof_is_dir,        \* whether profiles/ exists
    pc,                 \* position of the running script
    exitCode,           \* process exit status (-1 while running)
    stderr,             \* file names reported on the error stream
    todo,               \* rest of the for-loop the script is in
    written,            \* file names this invocation has written
    count,              \* convert main(): count
    run,                \* which invocation of the script this is
    firstInput,         \* the directory as the first invocation found it
    firstOutput,        \* the directory as the first invocation left it
    firstCount,         \* the count the first invocation printed
    trash_cf,           \* convert_cf(): its argument
    converted,          \* convert_cf(): its result
    existing_names,     \* normalize_files(): existing_names
    files_to_rename,    \* normalize_files(): files_to_rename
    used_names,         \* normalize_files(): used_names
    renamed,            \* normalize_files(): renamed
    rename_log,         \* the "Renamed: old -> new" lines, with the files then present
    existing_patterns,  \* generate main(): the keys of existing_patterns
    cf_patterns,        \* generate main(): cf_patterns
    missing_patterns,   \* generate main(): missing_patterns, then the rest of its loop
    existing_files,     \* generate main(): existing_files
    created,            \* generate main(): created
    still_missing,      \* generate main(): still_missing
    cf_names,           \* validate main(): cf_names
    cf_names_lower,     \* validate main(): cf_names_lower
    refs,               \* validate main(): refs
    missing,            \* validate main(): missing
    case_warnings,      \* validate main(): case_warnings
    ok                  \* validate main(): ok

fsVars   == <<custom_formats, cf_is_dir, regex_patterns, rp_exists, profiles, prof_is_dir>>
procVars == <<pc, exitCode, stderr, todo, written>>
convVars == <<count, run, firstInput, firstOutput, firstCount>>
mapVars  == <<trash_cf, converted>>
normVars == <<existing_names, files_to_rename, used_names, renamed, rename_log>>
synVars  == <<existing_patterns, cf_patterns, missing_patterns, existing_files,
              created, still_missing>>
refVars  == <<cf_names, cf_names_lower, refs, missing, case_warnings, ok>>
vars     == <<fsVars, procVars, convVars, mapVars, normVars, synVars, refVars>>

-----------------------------------------------------------------------------
(* Python and YAML values *)

\* Python's None, and a YAML document that is a sequence, not a mapping.
None   == [py_none |-> TRUE]
PyList == [py_list |-> TRUE]
IsMapping(d) == "py_none" \notin DOMAIN d /\ "py_list" \notin DOMAIN d

\* A scalar of a "value" field: an integer or a string.
IntV(n) == [int |-> n]
StrV(s) == [str |-> s]
IsInt(v) == "int" \in DOMAIN v

\* str(value)
PyStr(v) == IF IsInt(v) THEN ToString(v.int) ELSE v.str

\* dict.get(key, default)
Get(d, key, default) == IF key \in DOMAIN d THEN d[key] ELSE default

\* The empty mapping {}.
EmptyDict == [x \in {} |-> TRUE]

\* A file whose text is no YAML (yaml.safe_load raises), and yaml.dump/write_text
\* followed by read_text/yaml.safe_load of a plain value.
Invalid    == [yaml_error |-> TRUE]
Dump(data) == [yaml |-> data]
Loads(c)   == "yaml" \in DOMAIN c
Load(c)    == c.yaml

\* "if not data": None and the empty mapping are falsy.
Falsy(data) == data = None \/ DOMAIN data = {}

-----------------------------------------------------------------------------
(* Strings as sequences of characters *)

\* Printable ASCII in code order, the grave accent (code 96) left out: Ord keeps
\* the order of the character codes, which is all that comparisons need.
Ascii ==
    <<" ", "!", "\"", "#", "$", "%", "&", "'", "(", ")", "*", "+", ",", "-", ".", "/",
      "0", "1", "2", "3", "4", "5", "6", "7", "8", "9", ":", ";", "<", "=", ">", "?",
      "@", "A", "B", "C", "D", "E", "F", "G", "H", "I", "J", "K", "L", "M", "N", "O",
      "P", "Q", "R", "S", "T", "U", "V", "W", "X", "Y", "Z", "[", "\\", "]", "^", "_",
      "a", "b", "c", "d", "e", "f", "g", "h", "i", "j", "k", "l", "m", "n", "o",
      "p", "q", "r", "s", "t", "u", "v", "w", "x", "y", "z", "{", "|", "}", "~">>

Chars == {Ascii[i] : i \in DOMAIN Ascii}

\* The rank of a character in code order.
Ord == [c \in Chars |-> CHOOSE i \in DOMAIN Ascii : Ascii[i] = c]

\* str.lower() of one character: "A".."Z" are Ascii[34..59], "a".."z" Ascii[65..90].
LowerCh == [c \in Chars |-> IF Ord[c] \in 34..59 THEN Ascii[Ord[c] + 31] ELSE c]

\* str.lower()
Lower(s) == [i \in DOMAIN s |-> LowerCh[s[i]]]

IsDigit(c) == Ord[c] \in 17..26
IsSpace(c) == c = " "

\* Python's s < t on strings.
RECURSIVE StrLess(_, _)
StrLess(s, t) ==
    IF t = <<>> THEN FALSE
    ELSE IF s = <<>> THEN TRUE
    ELSE IF s[1] # t[1] THEN Ord[s[1]] < Ord[t[1]]
    ELSE StrLess(Tail(s), Tail(t))

\* str(n) for n >= 0
RECURSIVE Digits(_)
Digits(n) == IF n < 10 THEN <<Ascii[17 + n]>> ELSE Digits(n \div 10) \o <<Ascii[17 + (n % 10)]>>

\* str.strip()
RECURSIVE LStrip(_)
LStrip(s) == IF s # <<>> /\ IsSpace(s[1]) THEN LStrip(Tail(s)) ELSE s

RECURSIVE RStrip(_)
RStrip(s) ==
    IF s # <<>> /\ IsSpace(s[Len(s)]) THEN RStrip(SubSeq(s, 1, Len(s) - 1)) ELSE s

Strip(s) == RStrip(LStrip(s))

\* The characters of the class [<>:"/\\|?*].
Illegal == {"<", ">", ":", "\"", "/", "\\", "|", "?", "*"}

\* re.sub(r'[<>:"/\\|?*]', '_', name)
ReplaceIllegal(s) == [i \in DOMAIN s |-> IF s[i] \in Illegal THEN "_" ELSE s[i]]

\* The length file names are cut to.
MaxFilenameLen == 100

\* name[:100]
Truncate(s) == IF Len(s) > MaxFilenameLen THEN SubSeq(s, 1, MaxFilenameLen) ELSE s

\* The position of the "(" of a final "(digits)", or 0: re.search(r'\(\d+\)$', s).
SuffixStart(s) ==
    LET ks == {k \in DOMAIN s :
                 /\ s[k] = "(" /\ s[Len(s)] = ")" /\ k + 1 < Len(s)
                 /\ \A i \in (k + 1)..(Len(s) - 1) : IsDigit(s[i])}
    IN  IF ks = {} THEN 0 ELSE CHOOSE k \in ks : TRUE

Yml == <<".", "y", "m", "l">>

\* sorted(DIR.glob("*.yml")) as the sequence of stems: paths compare by file name.
RECURSIVE SortedStems(_)
SortedStems(S) ==
    IF S = {} THEN <<>>
    ELSE LET m == CHOOSE a \in S : \A b \in S \ {a} : StrLess(a \o Yml, b \o Yml)
         IN  <<m>> \o SortedStems(S \ {m})

\* Directories of at most n files named in Names with contents in Contents.
Dirs(Names, Contents, n) ==
    UNION {[S -> Contents] : S \in {T \in SUBSET Names : Cardinality(T) <= n}}

-----------------------------------------------------------------------------
(* convert_custom_formats_to_dictionarry_yml.py *)

RESOLUTION_MAP ==
    (360 :> "360p") @@ (480 :> "480p") @@ (540 :> "540p") @@ (576 :> "576p")
    @@ (720 :> "720p") @@ (1080 :> "1080p") @@ (2160 :> "2160p")

SOURCE_MAP ==
    (1 :> "cam") @@ (2 :> "telesync") @@ (3 :> "webdl") @@ (4 :> "webrip")
    @@ (5 :> "dvd") @@ (6 :> "hdtv") @@ (7 :> "bluray") @@ (8 :> "remux")
    @@ (9 :> "brdisk")

\* The three keys every produced condition starts with.
CondHead(spec) ==
    [name     |-> Get(spec, "name", ""),
     negate   |-> Get(spec, "negate", FALSE),
     required |-> Get(spec, "required", FALSE)]

\* A source specification whose integer is not in the table keeps the number.
spec_to_condition_SourcePassThrough(spec) ==
    LET impl  == Get(spec, "implementation", "")
        value == Get(Get(spec, "fields", EmptyDict), "value", None)
    IN  IF value = None THEN None
        ELSE IF impl = "ResolutionSpecification"
        THEN CondHead(spec) @@ [type |-> "resolution",
                 resolution |-> IF IsInt(value)
                                THEN Get(RESOLUTION_MAP, value.int, ToString(value.int) \o "p")
                                ELSE PyStr(value)]
        ELSE IF impl = "SourceSpecification"
        THEN CondHead(spec) @@ [type |-> "source", source |-> PyStr(value)]
        ELSE IF impl = "ReleaseGroupSpecification"
        THEN CondHead(spec) @@ [type |-> "release_group", pattern |-> PyStr(value)]
        ELSE CondHead(spec) @@ [type |-> "release_title", pattern |-> PyStr(value)]

\* spec_to_condition(spec): the condition of one specification, or None.
\* impl None (key absent) is written "": it equals no implementation tag.
spec_to_condition(spec) ==
    LET impl  == Get(spec, "implementation", "")
        value == Get(Get(spec, "fields", EmptyDict), "value", None)
    IN  IF impl = "ResolutionSpecification" /\ value # None
        THEN CondHead(spec) @@ [type |-> "resolution",
                 resolution |-> IF IsInt(value)
                                THEN Get(RESOLUTION_MAP, value.int, ToString(value.int) \o "p")
                                ELSE PyStr(value)]
        ELSE IF impl = "SourceSpecification" /\ value # None
        THEN CondHead(spec) @@ [type |-> "source",
                 source |-> IF IsInt(value)
                            THEN Get(SOURCE_MAP, value.int, "unknown")
                            ELSE PyStr(value)]
        ELSE IF impl = "ReleaseGroupSpecification" /\ value # None
        THEN CondHead(spec) @@ [type |-> "release_group", pattern |-> PyStr(value)]
        ELSE IF impl = "ReleaseTitleSpecification" /\ value # None
        THEN CondHead(spec) @@ [type |-> "release_title", pattern |-> PyStr(value)]
        ELSE IF value # None
        THEN CondHead(spec) @@ [type |-> "release_title", pattern |-> PyStr(value)]
        ELSE None

\* The for-loop of convert_cf: conditions of the specifications, in order.
RECURSIVE Conditions(_)
Conditions(specifications) ==
    IF specifications = <<>> THEN <<>>
    ELSE LET cond == spec_to_condition(Head(specifications))
         IN  (IF cond # None THEN <<cond>> ELSE <<>>) \o Conditions(Tail(specifications))

\* A specification that is no mapping makes spec.get raise.
ConvertRaises(data) ==
    \/ ~IsMapping(data)
    \/ \E i \in DOMAIN Get(data, "specifications", <<>>) :
           ~IsMapping(Get(data, "specifications", <<>>)[i])

\* convert_cf(trash_cf), for an argument it does not raise on.
convert_cf(cf) ==
    LET name        == Get(cf, "name", "Unnamed")
        description == IF Get(cf, "description", "") # ""
                       THEN cf.description
                       ELSE "Matches release criteria for " \o name
    IN  [name        |-> name,
         description |-> description,
         tags        |-> Get(cf, "tags", <<>>),
         conditions  |-> Conditions(Get(cf, "specifications", <<>>)),
         tests       |-> Get(cf, "tests", <<>>)]

-----------------------------------------------------------------------------
(* Specification of convert_cf alone: every input of a bounded set. *)

MaxSpecs == 2

ImplParts ==
    {EmptyDict} \cup
    {[implementation |-> i] :
        i \in {"ResolutionSpecification", "SourceSpecification",
               "ReleaseGroupSpecification", "ReleaseTitleSpecification",
               "LanguageSpecification"}}

FieldParts ==
    {EmptyDict} \cup
    {[fields |-> [value |-> v]] :
        v \in {None, IntV(1080), IntV(2000), IntV(7), IntV(99), StrV("x265")}}

FlagParts == {EmptyDict, [name |-> "n", negate |-> TRUE, required |-> TRUE]}

SpecUniverse == {i @@ f @@ g : i \in ImplParts, f \in FieldParts, g \in FlagParts}

SpecLists == UNION {[1..n -> SpecUniverse] : n \in 0..MaxSpecs}

IdleFs ==
    /\ custom_formats = EmptyDict /\ cf_is_dir = FALSE
    /\ regex_patterns = EmptyDict /\ rp_exists = FALSE
    /\ profiles = EmptyDict /\ prof_is_dir = FALSE

IdleProc == pc = "start" /\ exitCode = -1 /\ stderr = {} /\ todo = <<>> /\ written = {}

IdleConv ==
    /\ count = 0 /\ run = 1
    /\ firstInput = EmptyDict /\ firstOutput = EmptyDict /\ firstCount = 0

IdleMap == trash_cf = EmptyDict /\ converted = None

IdleNorm ==
    /\ existing_names = {} /\ files_to_rename = <<>> /\ used_names = {}
    /\ renamed = 0 /\ rename_log = <<>>

IdleSyn ==
    /\ existing_patterns = {} /\ cf_patterns = <<>> /\ missing_patterns = <<>>
    /\ existing_files = {} /\ created = 0 /\ still_missing = {}

IdleRef ==
    /\ cf_names = {} /\ cf_names_lower = EmptyDict /\ refs = <<>>
    /\ missing = <<>> /\ case_warnings = <<>> /\ ok = TRUE

InitMap ==
    /\ IdleFs /\ IdleProc /\ IdleConv /\ IdleNorm /\ IdleSyn /\ IdleRef
    /\ trash_cf \in {[name |-> "CF", specifications |-> s] : s \in SpecLists}
    /\ converted = None

MapConvert ==
    /\ converted = None
    /\ converted' = convert_cf(trash_cf)
    /\ UNCHANGED <<fsVars, procVars, convVars, normVars, synVars, refVars, trash_cf>>

NextMap == MapConvert

SpecMap == InitMap /\ [][NextMap]_vars

-----------------------------------------------------------------------------
(* Specification of the Schema Converter: main(), run twice in a row. *)

MaxConvFiles == 3

ConvNames == {<<"a">>, <<"b">>, <<"c">>, <<"d">>}

SourceSpec   == [implementation |-> "SourceSpecification", name |-> "BluRay",
                 fields |-> [value |-> IntV(7)]]
NoValueSpec  == [implementation |-> "ReleaseTitleSpecification", name |-> "Empty"]
ResSpec      == [implementation |-> "ResolutionSpecification", name |-> "Odd",
                 negate |-> TRUE, fields |-> [value |-> IntV(2000)]]

ConvContents ==
    { Invalid,
      Dump(None),
      Dump(PyList),
      Dump([name |-> "HD", specifications |-> <<SourceSpec, NoValueSpec>>]),
      Dump([name |-> "Broken", specifications |-> <<SourceSpec, PyList>>]),
      Dump(convert_cf([name |-> "Done", specifications |-> <<ResSpec>>])),
      Dump([name |-> "Both", description |-> "d", conditions |-> <<>>,
            specifications |-> <<ResSpec>>]),
      Dump([name |-> "Bare"]) }

\* Line 137: already in the target schema.  "conditions" in a list is False.
AlreadyConverted_WrongKey(data) ==
    IsMapping(data) /\ "condition" \in DOMAIN data /\ "specifications" \notin DOMAIN data

AlreadyConverted(data) ==
    IsMapping(data) /\ "conditions" \in DOMAIN data /\ "specifications" \notin DOMAIN data

\* The body of the try block raises: the file is no YAML, or convert_cf raises.
FileRaises(c) ==
    \/ ~Loads(c)
    \/ /\ ~Falsy(Load(c)) /\ ~AlreadyConverted(Load(c)) /\ ConvertRaises(Load(c))

\* The body of the try block reaches write_text.
FileRewritten(c) ==
    Loads(c) /\ ~Falsy(Load(c)) /\ ~AlreadyConverted(Load(c)) /\ ~ConvertRaises(Load(c))

\* The except clause: the loop goes on with the next file.
AfterError_Abort(rest) == <<>>

AfterError(rest) == rest

InitConv ==
    /\ cf_is_dir \in BOOLEAN
    /\ custom_formats \in Dirs(ConvNames, ConvContents, MaxConvFiles)
    /\ ~cf_is_dir => custom_formats = EmptyDict
    /\ regex_patterns = EmptyDict /\ rp_exists = FALSE
    /\ profiles = EmptyDict /\ prof_is_dir = FALSE
    /\ IdleProc /\ IdleMap /\ IdleNorm /\ IdleSyn /\ IdleRef
    /\ count = 0 /\ run = 1
    /\ firstInput = custom_formats /\ firstOutput = EmptyDict /\ firstCount = 0

\* Lines 126-131: the directory check, count = 0 and the sorted glob.
ConvStart ==
    /\ pc = "start"
    /\ IF ~cf_is_dir
       THEN /\ pc' = "exit" /\ exitCode' = 1
            /\ UNCHANGED <<todo, count>>
       ELSE /\ pc' = "loop" /\ count' = 0
            /\ todo' = SortedStems(DOMAIN custom_formats)
            /\ UNCHANGED exitCode
    /\ UNCHANGED <<fsVars, stderr, written, run, firstInput, firstOutput, firstCount, mapVars, normVars, synVars, refVars>>

\* Lines 131-150: one iteration of the loop.
ConvFile ==
    /\ pc = "loop" /\ todo # <<>>
    /\ LET f == Head(todo)
           c == custom_formats[f]
       IN  IF FileRaises(c)
           THEN /\ stderr' = stderr \cup {f}
                /\ todo' = AfterError(Tail(todo))
                /\ UNCHANGED <<custom_formats, count, written>>
           ELSE IF FileRewritten(c)
           THEN /\ custom_formats' = [custom_formats EXCEPT ![f] = Dump(convert_cf(Load(c)))]
                /\ written' = written \cup {f}
                /\ count' = count + 1
                /\ todo' = Tail(todo)
                /\ UNCHANGED stderr
           ELSE /\ todo' = Tail(todo)
                /\ UNCHANGED <<custom_formats, count, written, stderr>>
    /\ UNCHANGED <<cf_is_dir, regex_patterns, rp_exists, profiles, prof_is_dir,
                   pc, exitCode, run, firstInput, firstOutput, firstCount, mapVars, normVars, synVars, refVars>>

\* Line 152: the count is printed and main returns; the process exits 0.
ConvFinish ==
    /\ pc = "loop" /\ todo = <<>>
    /\ pc' = "done" /\ exitCode' = 0
    /\ UNCHANGED <<fsVars, stderr, todo, written, convVars, mapVars, normVars, synVars, refVars>>

\* The script is invoked a second time, immediately after the first.
ConvRerun ==
    /\ pc \in {"done", "exit"} /\ run = 1
    /\ run' = 2 /\ firstOutput' = custom_formats /\ firstCount' = count
    /\ pc' = "start" /\ exitCode' = -1 /\ stderr' = {} /\ written' = {} /\ count' = 0
    /\ UNCHANGED <<fsVars, todo, firstInput, mapVars, normVars, synVars, refVars>>

NextConv == ConvStart \/ ConvFile \/ ConvFinish \/ ConvRerun

SpecConv == InitConv /\ [][NextConv]_vars

-----------------------------------------------------------------------------
(* normalize_pattern_names.py *)

\* A description "Auto-generated from <cf>" is [auto_generated_from |-> cf]; any
\* other description is [text |-> ...].  re.search(r'Auto-generated from (.+)$').
CfMatch(description) ==
    "auto_generated_from" \in DOMAIN description /\ description.auto_generated_from # <<>>

get_safe_filename(name) ==
    LET hashed == IF name # <<>> /\ name[1] = "#"
                  THEN <<"H", "a", "s", "h">> \o Tail(name) ELSE name
    IN  Truncate(Strip(ReplaceIllegal(hashed)))

find_descriptive_name(pattern, current_name, description) ==
    LET k == SuffixStart(current_name)
    IN  IF k < 2 THEN current_name   \* ^(.+?) needs a character before the suffix
        ELSE IF CfMatch(description)
        THEN get_safe_filename(Strip(SubSeq(current_name, 1, k - 1))
                               \o <<" ", "(">> \o description.auto_generated_from \o <<")">>)
        ELSE current_name

\* Lines 87-98: the name the first pass wants for a file.
WantedName(current_name, data) ==
    LET description == Get(data, "description", [text |-> ""])
        pattern     == Get(data, "pattern", "")
        n1 == IF SuffixStart(current_name) > 0
              THEN find_descriptive_name(pattern, current_name, description)
              ELSE current_name
    IN  IF current_name # <<>> /\ current_name[1] = "#"
        THEN <<"H", "a", "s", "h">> \o Tail(current_name)
        ELSE n1

NeedsRename(current_name) ==
    SuffixStart(current_name) > 0 \/ (current_name # <<>> /\ current_name[1] = "#")

\* Lines 114-119: the first of new_name, "new_name 1", "new_name 2", ... that is
\* not a used name, or that is the old name up to case.
RECURSIVE Probe(_, _, _, _, _)
Probe(final_name, new_name, counter, old_stem, used) ==
    IF Lower(final_name) \in used /\ Lower(final_name) # Lower(old_stem)
    THEN Probe(new_name \o <<" ">> \o Digits(counter), new_name, counter + 1, old_stem, used)
    ELSE final_name

FinalName(new_name, old_stem, used) == Probe(new_name, new_name, 1, old_stem, used)

\* Lines 144-145: the claimed names after a rename.
UsedAfter(used, old_stem, final_name) ==
    (used \ {Lower(old_stem)}) \cup {Lower(final_name)}

\* Lines 125-141: write the new file, remove the old one.
RenameFile(dir, old_stem, final_name, data) ==
    LET newdata == [k \in DOMAIN data \cup {"name"} |->
                       IF k = "name" THEN final_name ELSE data[k]]
    IN  [f \in (DOMAIN dir \cup {final_name}) \ {old_stem} |->
            IF f = final_name THEN Dump(newdata) ELSE dir[f]]

-----------------------------------------------------------------------------
(* Specification of the Filename Normalizer: normalize_files(). *)

MaxNormFiles == 3

NormNames ==
    { <<"X", " ", "(", "1", ")">>, <<"x", " ", "(", "1", ")">>,
      <<"x", " ", "(", "2", ")">>, <<"#", "x">>, <<"x">> }

NormKinds == {"invalid", "empty", "hand", "auto1", "autoA"}

\* The content of the pattern file named n, of each kind.
NormContent(n, kind) ==
    IF kind = "invalid" THEN Invalid
    ELSE IF kind = "empty" THEN Dump(None)
    ELSE Dump([name |-> n, pattern |-> <<"pattern of">> \o n,
               description |-> IF kind = "auto1" THEN [auto_generated_from |-> <<"1">>]
                               ELSE IF kind = "autoA" THEN [auto_generated_from |-> <<"A">>]
                               ELSE [text |-> "by hand"],
               tags |-> <<>>, tests |-> <<>>])

NormDirs ==
    UNION {{[n \in S |-> NormContent(n, k[n])] : k \in [S -> NormKinds]} :
           S \in {T \in SUBSET NormNames : Cardinality(T) <= MaxNormFiles}}

InitNorm ==
    /\ rp_exists \in BOOLEAN
    /\ regex_patterns \in NormDirs
    /\ ~rp_exists => regex_patterns = EmptyDict
    /\ custom_formats = EmptyDict /\ cf_is_dir = FALSE
    /\ profiles = EmptyDict /\ prof_is_dir = FALSE
    /\ IdleProc /\ IdleMap /\ IdleSyn /\ IdleRef
    /\ IdleNorm
    /\ count = 0 /\ run = 1
    /\ firstInput = regex_patterns /\ firstOutput = EmptyDict /\ firstCount = 0

\* Lines 66-77: the directory check, existing_names and the sorted glob.
NormStart ==
    /\ pc = "start"
    /\ IF ~rp_exists
       THEN /\ pc' = "exit" /\ exitCode' = 1
            /\ UNCHANGED <<todo, existing_names>>
       ELSE /\ pc' = "scan"
            /\ existing_names' = {Lower(f) : f \in DOMAIN regex_patterns}
            /\ todo' = SortedStems(DOMAIN regex_patterns)
            /\ UNCHANGED exitCode
    /\ UNCHANGED <<fsVars, stderr, written, convVars, mapVars, synVars, refVars,
                   files_to_rename, used_names, renamed, rename_log>>

\* Lines 77-104: one iteration of the first pass.
NormScan ==
    /\ pc = "scan" /\ todo # <<>>
    /\ LET f == Head(todo)
           c == regex_patterns[f]
       IN  IF ~Loads(c) \/ (~Falsy(Load(c)) /\ ~IsMapping(Load(c)))
           THEN /\ stderr' = stderr \cup {f}
                /\ UNCHANGED files_to_rename
           ELSE IF Falsy(Load(c))
           THEN UNCHANGED <<stderr, files_to_rename>>
           ELSE /\ files_to_rename' =
                       IF NeedsRename(f) /\ WantedName(f, Load(c)) # f
                       THEN Append(files_to_rename,
                                   [old_path |-> f, new_name |-> WantedName(f, Load(c)),
                                    data |-> Load(c)])
                       ELSE files_to_rename
                /\ UNCHANGED stderr
    /\ todo' = Tail(todo)
    /\ UNCHANGED <<fsVars, pc, exitCode, written, convVars, mapVars, synVars, refVars,
                   existing_names, used_names, renamed, rename_log>>

\* Lines 106-110: the first pass is over; renamed = 0, used_names = set(existing_names).
NormPlan ==
    /\ pc = "scan" /\ todo = <<>>
    /\ pc' = "rename" /\ renamed' = 0 /\ used_names' = existing_names
    /\ UNCHANGED <<fsVars, exitCode, stderr, todo, written, convVars, mapVars, synVars, refVars,
                   existing_names, files_to_rename, rename_log>>

\* Lines 112-148: one iteration of the second pass.
NormRename ==
    /\ pc = "rename" /\ files_to_rename # <<>>
    /\ LET e          == Head(files_to_rename)
           final_name == FinalName(e.new_name, e.old_path, used_names)
       IN  IF Lower(final_name) = Lower(e.old_path)
           THEN UNCHANGED <<regex_patterns, used_names, renamed, rename_log, written>>
           ELSE /\ regex_patterns' = RenameFile(regex_patterns, e.old_path, final_name, e.data)
                /\ used_names' = UsedAfter(used_names, e.old_path, final_name)
                /\ renamed' = renamed + 1
                /\ written' = written \cup {final_name}
                /\ rename_log' = Append(rename_log,
                                        [old |-> e.old_path, new |-> final_name,
                                         present |-> DOMAIN regex_patterns])
    /\ files_to_rename' = Tail(files_to_rename)
    /\ UNCHANGED <<custom_formats, cf_is_dir, rp_exists, profiles, prof_is_dir,
                   pc, exitCode, stderr, todo, convVars, mapVars, synVars, refVars, existing_names>>

\* Lines 150-157: the count is printed and main returns; the process exits 0.
NormFinish ==
    /\ pc = "rename" /\ files_to_rename = <<>>
    /\ pc' = "done" /\ exitCode' = 0
    /\ UNCHANGED <<fsVars, stderr, todo, written, convVars, mapVars, normVars, synVars, refVars>>

NextNorm == NormStart \/ NormScan \/ NormPlan \/ NormRename \/ NormFinish

SpecNorm == InitNorm /\ [][NextNorm]_vars

-----------------------------------------------------------------------------
(* generate_missing_patterns.py *)

\* sub in s
Contains(s, sub) ==
    \E i \in 0..(Len(s) - Len(sub)) : SubSeq(s, i + 1, i + Len(sub)) = sub

StartsWith(s, pre) == Len(s) >= Len(pre) /\ SubSeq(s, 1, Len(pre)) = pre
EndsWith(s, suf)   == Len(s) >= Len(suf) /\ SubSeq(s, Len(s) - Len(suf) + 1, Len(s)) = suf

\* re.sub(r'[\s_]+', ' ', name): every run of spaces and underscores becomes one space.
RECURSIVE Collapse(_)
Collapse(s) ==
    IF s = <<>> THEN <<>>
    ELSE IF s[1] \in {" ", "_"}
    THEN IF Len(s) > 1 /\ s[2] \in {" ", "_"}
         THEN Collapse(Tail(s))
         ELSE <<" ">> \o Collapse(Tail(s))
    ELSE <<s[1]>> \o Collapse(Tail(s))

sanitize_filename(name) == Truncate(Strip(Collapse(ReplaceIllegal(name))))

audio_keywords ==
    { <<"a", "t", "m", "o", "s">>, <<"d", "t", "s">>, <<"t", "r", "u", "e", "h", "d">>,
      <<"a", "a", "c">>, <<"f", "l", "a", "c">>, <<"p", "c", "m">>,
      <<"d", "o", "l", "b", "y">>, <<"s", "u", "r", "r", "o", "u", "n", "d">>,
      <<"s", "t", "e", "r", "e", "o">>, <<"m", "o", "n", "o">>,
      <<"s", "o", "u", "n", "d">>, <<"a", "u", "d", "i", "o">> }

video_keywords ==
    { <<"h", "d", "r">>, <<"d", "v">>,
      <<"d", "o", "l", "b", "y", " ", "v", "i", "s", "i", "o", "n">>,
      <<"h", "e", "v", "c">>, <<"h", "2", "6", "5">>, <<"h", "2", "6", "4">>,
      <<"x", "2", "6", "4">>, <<"x", "2", "6", "5">>, <<"a", "v", "1">>,
      <<"r", "e", "m", "u", "x">>, <<"b", "l", "u", "r", "a", "y">>,
      <<"w", "e", "b", "d", "l">>, <<"w", "e", "b", "r", "i", "p">> }

streaming ==
    { <<"n", "e", "t", "f", "l", "i", "x">>, <<"a", "m", "a", "z", "o", "n">>,
      <<"a", "m", "z", "n">>, <<"d", "i", "s", "n", "e", "y">>, <<"d", "s", "n", "p">>,
      <<"h", "b", "o">>, <<"h", "m", "a", "x">>, <<"a", "p", "p", "l", "e">>,
      <<"a", "t", "v", "p">>, <<"h", "u", "l", "u">>,
      <<"p", "e", "a", "c", "o", "c", "k">>,
      <<"p", "a", "r", "a", "m", "o", "u", "n", "t">>,
      <<"c", "r", "u", "n", "c", "h", "y", "r", "o", "l", "l">> }

anime_keywords ==
    { <<"f", "a", "n", "s", "u", "b">>,
      <<"d", "u", "a", "l", " ", "a", "u", "d", "i", "o">>,
      <<"u", "n", "c", "e", "n", "s", "o", "r", "e", "d">>, <<"r", "a", "w", "s">> }

resolutions ==
    { <<"1", "0", "8", "0">>, <<"2", "1", "6", "0">>, <<"7", "2", "0">>,
      <<"4", "8", "0">>, <<"4", "k">> }

AnyIn(keywords, texts) == \E kw \in keywords : \E t \in texts : Contains(t, kw)

infer_tags(condition_name, pattern, cf_name) ==
    LET name_lower    == Lower(condition_name)
        pattern_lower == Lower(pattern)
        cf_lower      == Lower(cf_name)
        Tag(cond, tag) == IF cond THEN <<tag>> ELSE <<>>
    IN  Tag(\/ Contains(name_lower, <<"r", "e", "l", "e", "a", "s", "e", "_", "g", "r", "o", "u", "p">>)
            \/ StartsWith(pattern, <<"^", "(">>) /\ EndsWith(pattern, <<")", "$">>),
            "Release Group")
        \o Tag(AnyIn(audio_keywords, {name_lower, pattern_lower}), "Audio")
        \o Tag(AnyIn(video_keywords, {name_lower, pattern_lower}), "Video")
        \o Tag(AnyIn(streaming, {name_lower, pattern_lower}), "Streaming")
        \o Tag(Contains(cf_lower, <<"a", "n", "i", "m", "e">>)
                \/ AnyIn(anime_keywords, {name_lower}), "Anime")
        \o Tag(AnyIn(resolutions, {pattern_lower}), "Resolution")

\* load_existing_patterns(): the keys of the dict it returns.
load_existing_patterns(exists, dir) ==
    IF ~exists THEN {}
    ELSE {Load(dir[f]).pattern :
            f \in {g \in DOMAIN dir :
                      /\ Loads(dir[g]) /\ ~Falsy(Load(dir[g]))
                      /\ "pattern" \in DOMAIN Load(dir[g])}}

\* Lines 115-122: the entries of one file, up to a condition that raises
\* ("pattern" in None is a TypeError, caught at line 123).
RECURSIVE FilePatterns(_, _)
FilePatterns(conditions, cf_name) ==
    IF conditions = <<>> \/ Head(conditions) = None THEN <<>>
    ELSE LET cond == Head(conditions)
         IN  (IF "pattern" \in DOMAIN cond
              THEN <<[pattern |-> cond.pattern,
                      name    |-> Get(cond, "name", <<"U", "n", "k", "n", "o", "w", "n">>),
                      cf_name |-> cf_name,
                      type    |-> Get(cond, "type", "release_title")]>>
              ELSE <<>>)
             \o FilePatterns(Tail(conditions), cf_name)

\* Lines 108-124: the loop over the sorted files.
RECURSIVE ExtractFiles(_, _)
ExtractFiles(stems, dir) ==
    IF stems = <<>> THEN <<>>
    ELSE LET f == Head(stems)
             c == dir[f]
         IN  (IF Loads(c) /\ ~Falsy(Load(c)) /\ "conditions" \in DOMAIN Load(c)
              THEN FilePatterns(Load(c).conditions, Get(Load(c), "name", f))
              ELSE <<>>)
             \o ExtractFiles(Tail(stems), dir)

extract_patterns_from_custom_formats(is_dir, dir) ==
    IF ~is_dir THEN <<>> ELSE ExtractFiles(SortedStems(DOMAIN dir), dir)

\* Lines 183-189 without seen_patterns.
RECURSIVE FindMissing_NoSeen(_, _, _)
FindMissing_NoSeen(ps, existing, seen_patterns) ==
    IF ps = <<>> THEN <<>>
    ELSE IF Head(ps).pattern \notin existing
    THEN <<Head(ps)>> \o FindMissing_NoSeen(Tail(ps), existing, seen_patterns)
    ELSE FindMissing_NoSeen(Tail(ps), existing, seen_patterns)

\* Lines 183-189: the first entry of every pattern that is not indexed.
RECURSIVE FindMissing(_, _, _)
FindMissing(ps, existing, seen_patterns) ==
    IF ps = <<>> THEN <<>>
    ELSE IF Head(ps).pattern \notin existing /\ Head(ps).pattern \notin seen_patterns
    THEN <<Head(ps)>> \o FindMissing(Tail(ps), existing, seen_patterns \cup {Head(ps).pattern})
    ELSE FindMissing(Tail(ps), existing, seen_patterns)

\* Lines 139-143 without the loop: the base name is taken as it is.
ChooseFilename_NoProbe(filename, base_name, counter, claimed, dir) == filename

\* Lines 139-143 with the test on the claimed names left out: only the file
\* that exists under the very name stops a candidate.
RECURSIVE ChooseFilename_OnDiskOnly(_, _, _, _, _)
ChooseFilename_OnDiskOnly(filename, base_name, counter, claimed, dir) ==
    IF filename \in DOMAIN dir
    THEN ChooseFilename_OnDiskOnly(base_name \o <<" ", "(">> \o Digits(counter) \o <<")">>,
                                   base_name, counter + 1, claimed, dir)
    ELSE filename

\* Lines 139-143: the first of base, "base (1)", "base (2)", ... that is neither
\* claimed nor on disk.
RECURSIVE ChooseFilename(_, _, _, _, _)
ChooseFilename(filename, base_name, counter, claimed, dir) ==
    IF Lower(filename) \in claimed \/ filename \in DOMAIN dir
    THEN ChooseFilename(base_name \o <<" ", "(">> \o Digits(counter) \o <<")">>,
                        base_name, counter + 1, claimed, dir)
    ELSE filename

\* Lines 134-136
BaseName(name) ==
    IF sanitize_filename(name) = <<>> THEN <<"p", "a", "t", "t", "e", "r", "n">>
    ELSE sanitize_filename(name)

\* Lines 151-157
PatternData(p) ==
    [name        |-> p.name,
     pattern     |-> p.pattern,
     description |-> [auto_generated_from |-> p.cf_name],
     tags        |-> infer_tags(p.name, p.pattern, p.cf_name),
     tests       |-> <<>>]

AddFile(dir, f, c) == [g \in DOMAIN dir \cup {f} |-> IF g = f THEN c ELSE dir[g]]

-----------------------------------------------------------------------------
(* Specification of the Pattern Synthesizer: main(). *)

MaxSynCfFiles == 2
MaxSynRpFiles == 2

SynCfNames == {<<"A">>, <<"b">>, <<"c">>}
SynRpNames == {<<"n">>, <<"N", " ", "(", "1", ")">>, <<"U", "n", "k", "n", "o", "w", "n">>}

PatDts   == <<"d", "t", "s">>
PatGroup == <<"^", "(", "x", ")", "$">>
Pat720   == <<"7", "2", "0">>

Cond(name, pattern) == [name |-> name, type |-> "release_title", pattern |-> pattern]

SynCfContents ==
    { Invalid,
      Dump([name |-> <<"A", "n", "i", "m", "e">>, conditions |-> <<Cond(<<"n">>, PatDts)>>]),
      Dump([name |-> <<"H", "D">>,
            conditions |-> <<Cond(<<"N">>, PatGroup), Cond(<<"n">>, PatDts)>>]),
      Dump([conditions |-> <<Cond(<<"n">>, PatGroup), None, Cond(<<"N">>, Pat720)>>]),
      Dump([name |-> <<"H", "D">>,
            conditions |-> <<[name |-> <<"1", "0", "8", "0", "p">>, type |-> "resolution",
                              resolution |-> "1080p"],
                             [type |-> "release_group", pattern |-> Pat720]>>]),
      Dump([name |-> <<"X">>]) }

PatternFile(pattern) ==
    Dump([name |-> <<"o", "l", "d">>, pattern |-> pattern,
          description |-> [text |-> "by hand"], tags |-> <<>>, tests |-> <<>>])

SynRpContents ==
    {Invalid, PatternFile(PatDts), PatternFile(PatGroup), Dump([name |-> <<"x">>])}

InitSyn ==
    /\ cf_is_dir \in BOOLEAN
    /\ custom_formats \in Dirs(SynCfNames, SynCfContents, MaxSynCfFiles)
    /\ ~cf_is_dir => custom_formats = EmptyDict
    /\ rp_exists \in BOOLEAN
    /\ regex_patterns \in Dirs(SynRpNames, SynRpContents, MaxSynRpFiles)
    /\ ~rp_exists => regex_patterns = EmptyDict
    /\ profiles = EmptyDict /\ prof_is_dir = FALSE
    /\ IdleProc /\ IdleMap /\ IdleNorm /\ IdleRef
    /\ IdleSyn
    /\ count = 0 /\ run = 1
    /\ firstInput = regex_patterns /\ firstOutput = EmptyDict /\ firstCount = 0

\* Lines 174-176
SynLoadExisting ==
    /\ pc = "start"
    /\ existing_patterns' = load_existing_patterns(rp_exists, regex_patterns)
    /\ pc' = "extract"
    /\ UNCHANGED <<fsVars, exitCode, stderr, todo, written, convVars, mapVars, normVars, refVars,
                   cf_patterns, missing_patterns, existing_files, created, still_missing>>

\* Lines 178-180
SynExtract ==
    /\ pc = "extract"
    /\ cf_patterns' = extract_patterns_from_custom_formats(cf_is_dir, custom_formats)
    /\ pc' = "find"
    /\ UNCHANGED <<fsVars, exitCode, stderr, todo, written, convVars, mapVars, normVars, refVars,
                   existing_patterns, missing_patterns, existing_files, created,
                   still_missing>>

\* Lines 182-204: the missing patterns; with none main returns, else the
\* directory is made and the names in it are claimed.
SynFind ==
    /\ pc = "find"
    /\ missing_patterns' = FindMissing(cf_patterns, existing_patterns, {})
    /\ IF missing_patterns' = <<>>
       THEN /\ pc' = "done" /\ exitCode' = 0
            /\ UNCHANGED <<rp_exists, existing_files, created>>
       ELSE /\ pc' = "generate"
            /\ rp_exists' = TRUE
            /\ existing_files' = {Lower(f) : f \in DOMAIN regex_patterns}
            /\ created' = 0
            /\ UNCHANGED exitCode
    /\ UNCHANGED <<custom_formats, cf_is_dir, regex_patterns, profiles, prof_is_dir,
                   stderr, todo, written, convVars, mapVars, normVars, refVars,
                   existing_patterns, cf_patterns, still_missing>>

\* Lines 205-210 and generate_pattern_file(): one iteration of the loop.
SynGenerate ==
    /\ pc = "generate" /\ missing_patterns # <<>>
    /\ LET p        == Head(missing_patterns)
           filename == ChooseFilename(BaseName(p.name), BaseName(p.name), 1,
                                      existing_files, regex_patterns)
       IN  /\ existing_files' = existing_files \cup {Lower(filename)}
           /\ regex_patterns' = AddFile(regex_patterns, filename, Dump(PatternData(p)))
           /\ written' = written \cup {filename}
    /\ created' = created + 1
    /\ missing_patterns' = Tail(missing_patterns)
    /\ UNCHANGED <<custom_formats, cf_is_dir, rp_exists, profiles, prof_is_dir,
                   pc, exitCode, stderr, todo, convVars, mapVars, normVars, refVars,
                   existing_patterns, cf_patterns, still_missing>>

\* Lines 212-224: the re-scan; main returns and the process exits 0.
SynVerify ==
    /\ pc = "generate" /\ missing_patterns = <<>>
    /\ still_missing' = {cf_patterns[i].pattern : i \in DOMAIN cf_patterns}
                            \ load_existing_patterns(rp_exists, regex_patterns)
    /\ pc' = "done" /\ exitCode' = 0
    /\ UNCHANGED <<fsVars, stderr, todo, written, convVars, mapVars, normVars, refVars,
                   existing_patterns, cf_patterns, missing_patterns, existing_files,
                   created>>

NextSyn == SynLoadExisting \/ SynExtract \/ SynFind \/ SynGenerate \/ SynVerify

SpecSyn == InitSyn /\ [][NextSyn]_vars

-----------------------------------------------------------------------------
(* validate_profile_custom_formats.py *)

CF_KEYS == <<"custom_formats", "custom_formats_radarr", "custom_formats_sonarr">>

\* get_custom_format_names(): the names, and the files whose load raised.
get_custom_format_names(is_dir, dir) ==
    IF ~is_dir THEN {}
    ELSE {Load(dir[f]).name :
            f \in {g \in DOMAIN dir :
                      /\ Loads(dir[g]) /\ IsMapping(Load(dir[g]))
                      /\ "name" \in DOMAIN Load(dir[g])}}

LoadErrors(is_dir, dir, where) ==
    IF ~is_dir THEN {} ELSE {<<where, f>> : f \in {g \in DOMAIN dir : ~Loads(dir[g])}}

\* Lines 55-57: the references of one list field.
RECURSIVE EntryRefs(_, _, _)
EntryRefs(entries, path, key) ==
    IF entries = <<>> THEN <<>>
    ELSE (IF IsMapping(Head(entries)) /\ "name" \in DOMAIN Head(entries)
          THEN <<[path |-> path, key |-> key, name |-> Head(entries).name]>>
          ELSE <<>>)
         \o EntryRefs(Tail(entries), path, key)

\* Lines 51-57: data.get(key) of an absent key is None, which is no list.
RECURSIVE KeyRefs(_, _, _)
KeyRefs(keys, data, path) ==
    IF keys = <<>> THEN <<>>
    ELSE (IF Head(keys) \in DOMAIN data
          THEN EntryRefs(data[Head(keys)], path, Head(keys))
          ELSE <<>>)
         \o KeyRefs(Tail(keys), data, path)

\* Lines 43-57: the loop over the profile files, taken in sorted order (glob
\* gives them in directory order; the classification does not depend on it).
RECURSIVE ProfileRefs(_, _)
ProfileRefs(stems, dir) ==
    IF stems = <<>> THEN <<>>
    ELSE LET c == dir[Head(stems)]
         IN  (IF Loads(c) /\ IsMapping(Load(c))
              THEN KeyRefs(CF_KEYS, Load(c), Head(stems))
              ELSE <<>>)
             \o ProfileRefs(Tail(stems), dir)

get_profile_references(is_dir, dir) ==
    IF ~is_dir THEN <<>> ELSE ProfileRefs(SortedStems(DOMAIN dir), dir)

\* Lines 68-73 with the case-insensitive lookup left out.
Classify_NoCaseLookup(name, names, lower_keys) ==
    IF name \in names THEN "valid" ELSE "missing"

\* Lines 68-73: how one reference is classified.
Classify(name, names, lower_keys) ==
    IF name \in names THEN "valid"
    ELSE IF Lower(name) \in lower_keys THEN "case"
    ELSE "missing"

-----------------------------------------------------------------------------
(* Specification of the Reference Validator: main(). *)

MaxRefCfFiles  == 2
MaxRefProfiles == 2

RefCfFiles   == {<<"a">>, <<"b">>, <<"c">>}
RefProfFiles == {<<"p">>, <<"q">>, <<"r">>}

NameHD == <<"H", "D">>
Namehd == <<"h", "d">>
NameSD == <<"S", "D">>
NameXX == <<"X", "X">>

RefCfContents ==
    { Invalid,
      Dump([name |-> NameHD, conditions |-> <<>>]),
      Dump([name |-> Namehd, conditions |-> <<>>]),
      Dump([name |-> NameSD, conditions |-> <<>>]),
      Dump([description |-> "no name"]) }

RefProfContents ==
    { Invalid,
      Dump(PyList),
      Dump([custom_formats |-> <<[name |-> NameHD, score |-> 1]>>]),
      Dump([custom_formats |-> <<[name |-> Namehd]>>,
            custom_formats_radarr |-> <<[name |-> NameSD], [score |-> 5], PyList>>]),
      Dump([custom_formats_sonarr |-> <<[name |-> NameXX]>>]) }

InitRef ==
    /\ cf_is_dir \in BOOLEAN
    /\ custom_formats \in Dirs(RefCfFiles, RefCfContents, MaxRefCfFiles)
    /\ ~cf_is_dir => custom_formats = EmptyDict
    /\ prof_is_dir \in BOOLEAN
    /\ profiles \in Dirs(RefProfFiles, RefProfContents, MaxRefProfiles)
    /\ ~prof_is_dir => profiles = EmptyDict
    /\ regex_patterns = EmptyDict /\ rp_exists = FALSE
    /\ IdleProc /\ IdleConv /\ IdleMap /\ IdleNorm /\ IdleSyn /\ IdleRef

\* Lines 62-63: cf_names and cf_names_lower.  Of two names equal up to case the
\* dict keeps the one the set yields last, which the hash order decides.
RefNames ==
    /\ pc = "start"
    /\ cf_names' = get_custom_format_names(cf_is_dir, custom_formats)
    /\ cf_names_lower' \in
           {m \in [{Lower(n) : n \in cf_names'} -> cf_names'] :
               \A k \in DOMAIN m : Lower(m[k]) = k}
    /\ stderr' = stderr \cup LoadErrors(cf_is_dir, custom_formats, "custom_formats")
    /\ pc' = "refs"
    /\ UNCHANGED <<fsVars, exitCode, todo, written, convVars, mapVars, normVars, synVars,
                   refs, missing, case_warnings, ok>>

\* Lines 64-66
RefRefs ==
    /\ pc = "refs"
    /\ refs' = get_profile_references(prof_is_dir, profiles)
    /\ todo' = refs'
    /\ missing' = <<>> /\ case_warnings' = <<>>
    /\ stderr' = stderr \cup LoadErrors(prof_is_dir, profiles, "profiles")
    /\ pc' = "classify"
    /\ UNCHANGED <<fsVars, exitCode, written, convVars, mapVars, normVars, synVars,
                   cf_names, cf_names_lower, ok>>

\* Lines 67-73: one iteration of the loop.
RefClassify ==
    /\ pc = "classify" /\ todo # <<>>
    /\ LET r == Head(todo)
           class == Classify(r.name, cf_names, DOMAIN cf_names_lower)
       IN  /\ case_warnings' =
                  IF class = "case"
                  THEN Append(case_warnings,
                              [path |-> r.path, key |-> r.key, name |-> r.name,
                               canonical |-> cf_names_lower[Lower(r.name)]])
                  ELSE case_warnings
           /\ missing' = IF class = "missing" THEN Append(missing, r) ELSE missing
    /\ todo' = Tail(todo)
    /\ UNCHANGED <<fsVars, pc, exitCode, stderr, written, convVars, mapVars, normVars,
                   synVars, cf_names, cf_names_lower, refs, ok>>

\* Lines 74-83: the report and the exit status.
RefReport ==
    /\ pc = "classify" /\ todo = <<>>
    /\ ok' = (missing = <<>> /\ case_warnings = <<>>)
    /\ exitCode' = IF ok' THEN 0 ELSE 1
    /\ pc' = "done"
    /\ UNCHANGED <<fsVars, stderr, todo, written, convVars, mapVars, normVars, synVars,
                   cf_names, cf_names_lower, refs, missing, case_warnings>>

NextRef == RefNames \/ RefRefs \/ RefClassify \/ RefReport

SpecRef == InitRef /\ [][NextRef]_vars

-----------------------------------------------------------------------------
(* Claims about the Schema Converter *)

\* What one file holds after a run that reached it, by its content alone.
Outcome(c) == IF FileRewritten(c) THEN Dump(convert_cf(Load(c))) ELSE c

\* C1: a second run of the Schema Converter immediately after a first run
\* changes no file and converts 0 files: every file the first run wrote has a
\* top-level "conditions" key and no "specifications" key.
C1_SecondRunIsNoOp ==
    /\ run = 1 =>
           \A f \in written :
               /\ "conditions" \in DOMAIN Load(custom_formats[f])
               /\ "specifications" \notin DOMAIN Load(custom_formats[f])
    /\ run = 2 => custom_formats = firstOutput /\ count = 0 /\ written = {}

\* A second run has completed after a first one that rewrote a file.
C1_Witness ==
    /\ run = 2 /\ pc = "done" /\ firstCount >= 1
    /\ \E f \in DOMAIN firstInput : firstOutput[f] # firstInput[f]

\* C10: a file whose load or conversion raises is left unchanged and reported,
\* every other file ends as it would with the failing files absent (its own
\* outcome), and the printed count is the number of files rewritten.
C10_FailureIsolation ==
    (run = 1 /\ pc = "done") =>
        /\ DOMAIN custom_formats = DOMAIN firstInput
        /\ \A f \in DOMAIN firstInput :
               IF FileRaises(firstInput[f])
               THEN custom_formats[f] = firstInput[f] /\ f \in stderr
               ELSE custom_formats[f] = Outcome(firstInput[f]) /\ f \notin stderr
        /\ written = {f \in DOMAIN firstInput : FileRewritten(firstInput[f])}
        /\ count = Cardinality(written)

\* A run has completed in which a file failed before a later file was rewritten.
C10_Witness ==
    /\ run = 1 /\ pc = "done"
    /\ \E f \in stderr : \E g \in written : StrLess(f, g)

\* C6 as stated: the exit code is 1 whenever a file failed to load or convert.
C6_ExitCodeOnFailure ==
    pc = "done" => (stderr # {} => exitCode = 1)

-----------------------------------------------------------------------------
(* Claims about spec_to_condition and convert_cf *)

HasValue(spec) ==
    /\ "fields" \in DOMAIN spec
    /\ "value" \in DOMAIN spec.fields
    /\ spec.fields.value # None

\* How many specifications up to the i-th have a value.
Rank(S, i) == Cardinality({j \in 1..i : HasValue(S[j])})

\* What the claim says of the condition c made from specification s.
C8_ConditionOf(s, c) ==
    LET v    == s.fields.value
        impl == Get(s, "implementation", "")
    IN  /\ c.name = Get(s, "name", "")
        /\ c.negate = Get(s, "negate", FALSE)
        /\ c.required = Get(s, "required", FALSE)
        /\ impl = "ResolutionSpecification" =>
               /\ c.type = "resolution"
               /\ IsInt(v) =>
                      c.resolution =
                          IF v.int \in {360, 480, 540, 576, 720, 1080, 2160}
                          THEN RESOLUTION_MAP[v.int]
                          ELSE ToString(v.int) \o "p"
               /\ v = IntV(1080) => c.resolution = "1080p"
               /\ v = IntV(2000) => c.resolution = "2000p"
        /\ impl = "SourceSpecification" =>
               /\ c.type = "source"
               /\ IsInt(v) =>
                      c.source = IF v.int \in 1..9 THEN SOURCE_MAP[v.int] ELSE "unknown"
               /\ v = IntV(7) => c.source = "bluray"
               /\ v = IntV(99) => c.source = "unknown"
        /\ impl = "ReleaseGroupSpecification" =>
               c.type = "release_group" /\ c.pattern = PyStr(v)
        /\ impl = "ReleaseTitleSpecification" =>
               c.type = "release_title" /\ c.pattern = PyStr(v)
        /\ impl \notin {"ResolutionSpecification", "SourceSpecification",
                        "ReleaseGroupSpecification", "ReleaseTitleSpecification"} =>
               c.type = "release_title"

\* C8: convert_cf yields the conditions of exactly the specifications that have
\* a value, in their order, each with the type and type-specific field of its
\* kind and value (2000 gives "2000p", 7 "bluray", 99 "unknown") and with name,
\* negate and required copied (defaults "", false, false).
C8_Mapping ==
    converted # None =>
        LET S == trash_cf.specifications
            C == converted.conditions
        IN  /\ Len(C) = Rank(S, Len(S))
            /\ \A i \in DOMAIN S :
                   HasValue(S[i]) => C8_ConditionOf(S[i], C[Rank(S, i)])

\* A specification without a value was dropped before a source of value 99.
C8_Witness ==
    /\ converted # None
    /\ Len(trash_cf.specifications) = 2
    /\ ~HasValue(trash_cf.specifications[1])
    /\ Len(converted.conditions) = 1
    /\ converted.conditions[1].type = "source"
    /\ converted.conditions[1].source = "unknown"

-----------------------------------------------------------------------------
(* Claims about the Filename Normalizer *)

\* C2 as stated: the name a file is renamed to differs, case-insensitively, from
\* the name of every other file then present in regex_patterns and from every
\* name already renamed-to in the same run.
C2_RenameNeverCollides ==
    \A i \in DOMAIN rename_log :
        /\ \A g \in rename_log[i].present \ {rename_log[i].old} :
               Lower(g) # Lower(rename_log[i].new)
        /\ \A j \in 1..(i - 1) :
               Lower(rename_log[j].new) # Lower(rename_log[i].new)

\* What a pattern file holds besides its name: the pattern, description, tags
\* and tests of a mapping, the content itself of any other file.
Payload(c) ==
    IF Loads(c) /\ ~Falsy(Load(c)) /\ IsMapping(Load(c))
    THEN [payload |-> [k \in DOMAIN Load(c) \ {"name"} |-> Load(c)[k]]]
    ELSE c

\* The files of a directory that hold payload p.
FilesHolding(dir, p) == {f \in DOMAIN dir : Payload(dir[f]) = p}

\* C12 as stated: when a run completes the directory holds as many pattern
\* files as when it began, and each pattern, description, tags and tests is
\* held by as many files as before; and while files are renamed the claimed
\* names contain the lower-cased name of every file on disk.
C12_NoFileLost ==
    /\ pc = "done" =>
           /\ Cardinality(DOMAIN regex_patterns) = Cardinality(DOMAIN firstInput)
           /\ \A g \in DOMAIN firstInput :
                  Cardinality(FilesHolding(regex_patterns, Payload(firstInput[g])))
                      = Cardinality(FilesHolding(firstInput, Payload(firstInput[g])))
    /\ pc = "rename" =>
           \A f \in DOMAIN regex_patterns : Lower(f) \in used_names

-----------------------------------------------------------------------------
(* Claims about the Pattern Synthesizer *)

\* The pattern files of a directory that hold pattern p.
FilesWith(dir, p) ==
    {f \in DOMAIN dir :
        /\ Loads(dir[f]) /\ ~Falsy(Load(dir[f]))
        /\ "pattern" \in DOMAIN Load(dir[f])
        /\ Load(dir[f]).pattern = p}

\* The pattern strings the scan finds: those of the conditions of every custom
\* format that loads, up to a condition that is no mapping.
Referenced ==
    {p \in {PatDts, PatGroup, Pat720} :
        \E f \in DOMAIN custom_formats :
            /\ Loads(custom_formats[f]) /\ ~Falsy(Load(custom_formats[f]))
            /\ "conditions" \in DOMAIN Load(custom_formats[f])
            /\ \E i \in DOMAIN Load(custom_formats[f]).conditions :
                   /\ \A j \in 1..i : Load(custom_formats[f]).conditions[j] # None
                   /\ "pattern" \in DOMAIN Load(custom_formats[f]).conditions[i]
                   /\ Load(custom_formats[f]).conditions[i].pattern = p}

\* C3: when a run completes, every pattern string found in a condition of a
\* custom format has a pattern file with that very pattern, and the re-scan
\* finds no pattern still unmatched.
C3_Coverage ==
    pc = "done" =>
        /\ \A p \in Referenced : FilesWith(regex_patterns, p) # {}
        /\ still_missing = {}

\* A run has completed that had to take a suffixed name next to a file whose
\* pattern is referenced.
C3_Witness ==
    /\ pc = "done" /\ created >= 1
    /\ \E f \in written : SuffixStart(f) > 0
    /\ \E p \in Referenced : FilesWith(firstInput, p) # {}

\* The first entry of the scan that holds pattern p.
FirstWith(p) ==
    cf_patterns[CHOOSE i \in DOMAIN cf_patterns :
                    /\ cf_patterns[i].pattern = p
                    /\ \A j \in 1..(i - 1) : cf_patterns[j].pattern # p]

\* C4: a run creates exactly one pattern file for each distinct referenced
\* pattern that is not indexed, none for an indexed pattern, and a pattern
\* shared by several conditions gets one file, with the name and the owning
\* custom format of the first such condition in scan order.
C4_OneFilePerMissingPattern ==
    pc = "done" =>
        LET New     == DOMAIN regex_patterns \ DOMAIN firstInput
            Indexed == {p \in Referenced : FilesWith(firstInput, p) # {}}
        IN  /\ New = written
            /\ created = Cardinality(New)
            /\ \A p \in Referenced \ Indexed :
                   /\ Cardinality(FilesWith(regex_patterns, p) \cap New) = 1
                   /\ \A f \in FilesWith(regex_patterns, p) \cap New :
                          /\ Load(regex_patterns[f]).name = FirstWith(p).name
                          /\ Load(regex_patterns[f]).description =
                                 [auto_generated_from |-> FirstWith(p).cf_name]
            /\ \A p \in Indexed : FilesWith(regex_patterns, p) \cap New = {}
            /\ \A f \in New : \E p \in Referenced \ Indexed : f \in FilesWith(regex_patterns, p)

\* A run has completed in which two custom formats share a missing pattern.
C4_Witness ==
    /\ pc = "done" /\ created >= 1
    /\ \E i, j \in DOMAIN cf_patterns :
           /\ i < j
           /\ cf_patterns[i].pattern = cf_patterns[j].pattern
           /\ cf_patterns[i].cf_name # cf_patterns[j].cf_name
           /\ FilesWith(firstInput, cf_patterns[i].pattern) = {}

\* The k-th name the probe tries for a base name: the base name itself, then
\* "base (1)", "base (2)", ...
Candidate(base_name, k) ==
    IF k = 0 THEN base_name ELSE base_name \o <<" ", "(">> \o Digits(k) \o <<")">>

\* The lower-cased names of a set of files.
LowerNames(S) == {Lower(g) : g \in S}

\* C11: every step that generates a pattern file chooses a new filename that
\* differs, case-insensitively, from every filename the directory held when
\* the run began and from every filename created earlier in the run; every
\* pre-existing file is still there with its content; and the name chosen is
\* the candidate with the lowest suffix whose lower-cased form no file
\* claims, every lower candidate being claimed.
C11_FilenameUnique ==
    [][created' # created =>
          \E f \in written' \ written :
              /\ written' = written \cup {f}
              /\ Lower(f) \notin LowerNames(DOMAIN firstInput \cup written)
              /\ DOMAIN regex_patterns' = DOMAIN regex_patterns \cup {f}
              /\ f \notin DOMAIN regex_patterns
              /\ \A g \in DOMAIN firstInput :
                     g \in DOMAIN regex_patterns' /\ regex_patterns'[g] = firstInput[g]
              /\ \A g \in written : regex_patterns'[g] = regex_patterns[g]
              /\ \E k \in 0..Cardinality(DOMAIN regex_patterns) :
                     /\ f = Candidate(BaseName(Head(missing_patterns).name), k)
                     /\ \A j \in 0..(k - 1) :
                            Lower(Candidate(BaseName(Head(missing_patterns).name), j))
                                \in LowerNames(DOMAIN firstInput \cup written)]_vars

\* A run has completed that took the name "n (2)": the directory held "n" and,
\* differing only in case from the first suffixed candidate, "N (1)".
C11_Witness ==
    /\ pc = "done" /\ created >= 1
    /\ <<"n">> \in DOMAIN firstInput
    /\ <<"N", " ", "(", "1", ")">> \in DOMAIN firstInput
    /\ <<"n", " ", "(", "2", ")">> \in written
    /\ <<"n", " ", "(", "1", ")">> \notin DOMAIN regex_patterns

-----------------------------------------------------------------------------
(* Claims about the Reference Validator *)

\* The files of custom_formats that carry a name.
Named ==
    {f \in DOMAIN custom_formats :
        /\ Loads(custom_formats[f]) /\ IsMapping(Load(custom_formats[f]))
        /\ "name" \in DOMAIN Load(custom_formats[f])}

NameOf(f) == Load(custom_formats[f]).name

\* The references of one list field of one profile: (file, field, name).
FieldReferences(f, key) ==
    IF Loads(profiles[f]) /\ IsMapping(Load(profiles[f])) /\ key \in DOMAIN Load(profiles[f])
    THEN LET entries == Load(profiles[f])[key]
         IN  {<<f, key, entries[i].name>> :
                 i \in {j \in DOMAIN entries :
                           IsMapping(entries[j]) /\ "name" \in DOMAIN entries[j]}}
    ELSE {}

\* The references of the profiles.
References ==
    UNION {FieldReferences(f, CF_KEYS[k]) : f \in DOMAIN profiles, k \in DOMAIN CF_KEYS}

Triples(list) == {<<list[i].path, list[i].key, list[i].name>> : i \in DOMAIN list}

ExactMatch(n) == \E f \in Named : NameOf(f) = n
CaseMatch(n)  == \E f \in Named : Lower(NameOf(f)) = Lower(n)

\* C5: every profile reference is exactly one of valid (an exact name exists),
\* case-mismatch (no exact name, but one equal up to case) and missing (none);
\* a case-only difference is a case-mismatch, never a missing reference; and
\* the validator exits successfully if and only if every reference is valid.
C5_Classification ==
    pc = "done" =>
        /\ Triples(refs) = References
        /\ Triples(case_warnings) =
               {r \in References : ~ExactMatch(r[3]) /\ CaseMatch(r[3])}
        /\ Triples(missing) = {r \in References : ~CaseMatch(r[3])}
        /\ Triples(case_warnings) \cap Triples(missing) = {}
        /\ \A r \in References :
               ExactMatch(r[3]) => r \notin Triples(case_warnings) \cup Triples(missing)
        /\ (exitCode = 0) <=> (\A r \in References : ExactMatch(r[3]))
        /\ exitCode \in {0, 1}

\* A run has ended unsuccessfully with a case-mismatch and no missing reference.
C5_Witness ==
    /\ pc = "done" /\ exitCode = 1
    /\ case_warnings # <<>> /\ missing = <<>>
    /\ \E i \in DOMAIN refs : refs[i].name \in cf_names

\* C9 as stated: when two custom-format files carry names that are equal or
\* differ only in case, the run flags it and does not report success.
C9_DuplicateNamesFlagged ==
    pc = "done" =>
        ((\E f, g \in Named : f # g /\ Lower(NameOf(f)) = Lower(NameOf(g)))
            => exitCode = 1)

\* C7 as stated: when a directory the script reads does not exist, the run
\* aborts with an unsuccessful exit.
C7_MissingDirectoryIsFatal ==
    pc \in {"done", "exit"} => (~cf_is_dir \/ ~prof_is_dir => exitCode = 1)

====
